---- MODULE Spec2Model ----
(***************************************************************************)
(* A model of eclipse-predictor: the snapshot cache (src/src/snapshots.rs), *)
(* the snapshot (de)serialisation (src/src/simulation/body.rs, mod.rs),     *)
(* the light-direction buffer and the driver's refinement loop              *)
(* (src/src/main.rs) and the State implementation of SimState               *)
(* (src/src/simulation/mod.rs).                                             *)
(*                                                                         *)
(* Representation.  A DateTime<Utc> is a record [s, ns]: whole seconds and  *)
(* the sub-second nanoseconds 0 .. NANOS-1, as chrono stores it.  A         *)
(* Duration is the same record (s may be negative, ns never is).  An f64    *)
(* that holds a quantity of the simulation is an integer of the model at a  *)
(* fixed scale; the result of a float division is kept as an exact          *)
(* fraction.  Floating-point rounding is outside the model.                 *)
(***************************************************************************)
EXTENDS Integers, Sequences, FiniteSets, TLC

VARIABLES
    \* ---- snapshot cache (snapshots.rs)
    snapshots,      \* Snapshots.snapshots : Vec<SimState>
    store,          \* the "snapshots" directory: file name -> file content
    cacheOp,        \* the last call on the cache, its argument and its result
    \* ---- (de)serialisation (body.rs, mod.rs)
    tomlSim,        \* the SimState handed to Value::from
    tomlVal,        \* the toml Value in flight
    tomlRes,        \* what SimState::from(Value) produced
    tomlPc,         \* position in the save/load pipeline
    \* ---- driver and detector (main.rs)
    pc,             \* position of main: coarse loop, refinement loop, ...
    time,           \* main's time (seconds)
    current_eclipse,
    new_eclipse,
    time2,          \* the refinement loop's time2
    eclipse,        \* the refinement loop's local eclipse
    light_dirs,     \* EclipseDetector.light_dirs : Vec<(f64, Vector3<f64>)>
    lightOp,        \* the last call on the detector and its result
    \* ---- integrator steps on a SimState (mod.rs, impl State)
    isim,           \* the SimState being propagated
    isim0,          \* the SimState before the first propagate
    ih,             \* the step size h of the round trip, or of the last step
    ipc,            \* position in the h / -h round trip, or in propagate_to
    iqueue,         \* the sub-shifts the running propagate_in_place still makes
    irounded,       \* whether the rounding hack changed the time on the way
    itarget         \* propagate_to's datetime, the target

vars == <<snapshots, store, cacheOp, tomlSim, tomlVal, tomlRes, tomlPc,
          pc, time, current_eclipse, new_eclipse, time2, eclipse, light_dirs,
          lightOp, isim, isim0, ih, ipc, iqueue, irounded, itarget>>

cacheVars == <<snapshots, store, cacheOp>>
tomlVars == <<tomlSim, tomlVal, tomlRes, tomlPc>>
driverVars == <<pc, time, current_eclipse, new_eclipse, time2, eclipse>>
lightVars == <<light_dirs, lightOp>>
integVars == <<isim, isim0, ih, ipc, iqueue, irounded, itarget>>

\* What an action of one part leaves alone: the variables of the others.
notCache == <<tomlVars, driverVars, lightVars, integVars>>
notToml == <<cacheVars, driverVars, lightVars, integVars>>
notDriver == <<cacheVars, tomlVars, integVars>>
notLight == <<cacheVars, tomlVars, driverVars, integVars>>
notInteg == <<cacheVars, tomlVars, driverVars, lightVars>>

-----------------------------------------------------------------------------
(* Time: chrono's DateTime<Utc> and Duration.                              *)

NANOS == 1000000000

\* A (seconds, nanoseconds) pair brought to 0 <= ns < NANOS.
Normalize(s, n) == [s |-> s + (n \div NANOS), ns |-> n % NANOS]

\* DateTime + Duration, DateTime - Duration, DateTime - DateTime.
TimeAdd(t, d) == Normalize(t.s + d.s, t.ns + d.ns)
TimeSub(a, b) == Normalize(a.s - b.s, a.ns - b.ns)

\* Ord on DateTime and on Duration.
TimeLess(a, b) == a.s < b.s \/ (a.s = b.s /\ a.ns < b.ns)

\* Duration::nanoseconds(n), |n| < 2 * NANOS.
DurationNanos(n) == Normalize(0, n)

\* DateTime::from_utc(NaiveDateTime::from_timestamp(0, 0), Utc)
EpochTime == [s |-> 0, ns |-> 0]

-----------------------------------------------------------------------------
(* Body and SimState.                                                      *)

Body(name, gm, radius, pos, vel) ==
    [name |-> name, gm |-> gm, radius |-> radius, pos |-> pos, vel |-> vel]

SimState(t, bodies) == [time |-> t, bodies |-> bodies]

\* SimState::with_datestr: the time parsed from "%Y-%m-%dT%H:%M:%SZ", which
\* has whole seconds only.  A datestr of the model is that number of seconds.
WithDatestr(sim, datestr) == [sim EXCEPT !.time = [s |-> datestr, ns |-> 0]]

\* The bodies the checks draw from: any two differ in some field, and within
\* one body no two fields hold the same value.
SampleBodies ==
    { Body("Sun", 11, 21, <<1, 2, 3>>, <<4, 5, 6>>),
      Body("Earth", 12, 22, <<1, 2, 3>>, <<7, 8, 9>>),
      Body("Moon", 11, 23, <<3, 2, 1>>, <<4, 5, 6>>) }

MaxBodies == 2

RECURSIVE SeqsUpTo(_, _)
SeqsUpTo(S, n) ==
    IF n = 0 THEN {<<>>}
    ELSE LET shorter == SeqsUpTo(S, n - 1)
         IN  shorter \cup {Append(q, x) : q \in shorter, x \in S}

BodyLists == SeqsUpTo(SampleBodies, MaxBodies)

-----------------------------------------------------------------------------
(* toml::Value and the conversions of body.rs and mod.rs.                  *)
(* A Value is [kind, v]: kind is the variant (Table, Array, String, Float,  *)
(* Integer), v its payload; a Table's payload is a function from keys.     *)

VString(x) == [kind |-> "String", v |-> x]
VFloat(x) == [kind |-> "Float", v |-> x]
VInteger(x) == [kind |-> "Integer", v |-> x]
VArray(seq) == [kind |-> "Array", v |-> seq]
VTable(map) == [kind |-> "Table", v |-> map]

\* Map::insert and Map::remove (the map left after the removal).
MapInsert(map, k, x) ==
    [j \in DOMAIN map \cup {k} |-> IF j = k THEN x ELSE map[j]]
MapRemove(map, k) == [j \in DOMAIN map \ {k} |-> map[j]]
EmptyMap == [j \in {} |-> 0]

\* A call that returned x, a call that returned (), a call that panicked.
Ok(x) == [ok |-> TRUE, val |-> x]
Unit == [ok |-> TRUE]
Panic == [ok |-> FALSE]

\* impl From<Body> for Value
BodyToValue(body) ==
    LET m1 == MapInsert(EmptyMap, "name", VString(body.name))
        m2 == MapInsert(m1, "gm", VFloat(body.gm))
        m3 == MapInsert(m2, "radius", VFloat(body.radius))
        m4 == MapInsert(m3, "position",
                  VArray(<<VFloat(body.pos[1]), VFloat(body.pos[2]),
                           VFloat(body.pos[3])>>))
        m5 == MapInsert(m4, "velocity",
                  VArray(<<VFloat(body.vel[1]), VFloat(body.vel[2]),
                           VFloat(body.vel[3])>>))
    IN  VTable(m5)

\* Value::as_float: Some for a Float, None for every other variant.
AsFloat(val) == IF val.kind = "Float" THEN Ok(val.v) ELSE Panic

\* The match arm of position and of velocity: an Array of exactly 3 floats.
Vector3FromValue(val) ==
    IF val.kind # "Array" THEN Panic
    ELSE IF Len(val.v) # 3 THEN Panic
    ELSE IF \E i \in 1..3 : ~AsFloat(val.v[i]).ok THEN Panic
    ELSE Ok(<<AsFloat(val.v[1]).val, AsFloat(val.v[2]).val,
              AsFloat(val.v[3]).val>>)

\* map.remove(key).expect(..) matched against one variant.
FieldOfKind(map, key, kind) ==
    IF key \notin DOMAIN map THEN Panic
    ELSE IF map[key].kind # kind THEN Panic
    ELSE Ok(map[key].v)

\* A faulty variant: position is read from the velocity entry.
BodyFromValueSwapped(val) ==
    IF val.kind # "Table" THEN Panic
    ELSE LET map == val.v
             name == FieldOfKind(map, "name", "String")
             gm == FieldOfKind(map, "gm", "Float")
             radius == FieldOfKind(map, "radius", "Float")
             vel == IF "velocity" \in DOMAIN map
                    THEN Vector3FromValue(map["velocity"]) ELSE Panic
         IN  IF ~name.ok \/ ~gm.ok \/ ~radius.ok \/ ~vel.ok THEN Panic
             ELSE Ok(Body(name.val, gm.val, radius.val, vel.val, vel.val))

\* A faulty variant: a missing radius defaults instead of failing the load.
BodyFromValueLenient(val) ==
    IF val.kind # "Table" THEN Panic
    ELSE LET map == val.v
             name == FieldOfKind(map, "name", "String")
             gm == FieldOfKind(map, "gm", "Float")
             radius == IF "radius" \notin DOMAIN map THEN Ok(0)
                       ELSE FieldOfKind(map, "radius", "Float")
             pos == IF "position" \in DOMAIN map
                    THEN Vector3FromValue(map["position"]) ELSE Panic
             vel == IF "velocity" \in DOMAIN map
                    THEN Vector3FromValue(map["velocity"]) ELSE Panic
         IN  IF ~name.ok \/ ~gm.ok \/ ~radius.ok \/ ~pos.ok \/ ~vel.ok
             THEN Panic
             ELSE Ok(Body(name.val, gm.val, radius.val, pos.val, vel.val))

\* impl From<Value> for Body: every failed match or expect panics.
BodyFromValue(val) ==
    IF val.kind # "Table" THEN Panic
    ELSE LET map == val.v
             name == FieldOfKind(map, "name", "String")
             gm == FieldOfKind(map, "gm", "Float")
             radius == FieldOfKind(map, "radius", "Float")
             pos == IF "position" \in DOMAIN map
                    THEN Vector3FromValue(map["position"]) ELSE Panic
             vel == IF "velocity" \in DOMAIN map
                    THEN Vector3FromValue(map["velocity"]) ELSE Panic
         IN  IF ~name.ok \/ ~gm.ok \/ ~radius.ok \/ ~pos.ok \/ ~vel.ok
             THEN Panic
             ELSE Ok(Body(name.val, gm.val, radius.val, pos.val, vel.val))

\* impl From<SimState> for Value
SimToValue(sim) ==
    VTable(MapInsert(EmptyMap, "bodies",
        VArray([i \in 1..Len(sim.bodies) |-> BodyToValue(sim.bodies[i])])))

\* impl From<Value> for SimState: the time is the epoch, whatever was saved.
SimFromValue(val) ==
    IF val.kind # "Table" THEN Panic
    ELSE IF "bodies" \notin DOMAIN val.v THEN Panic
    ELSE IF val.v["bodies"].kind # "Array" THEN Panic
    ELSE LET entries == val.v["bodies"].v
             loaded == [i \in 1..Len(entries) |-> BodyFromValue(entries[i])]
         IN  IF \E i \in 1..Len(entries) : ~loaded[i].ok THEN Panic
             ELSE Ok(SimState(EpochTime,
                        [i \in 1..Len(entries) |-> loaded[i].val]))

-----------------------------------------------------------------------------
(* Saving and loading a snapshot: SimState -> Value -> SimState.           *)

NoValue == VString("none")
NoResult == [ok |-> FALSE, none |-> TRUE]

BodyKeys == {"name", "gm", "radius", "position", "velocity"}

\* A body entry as a hand-edited or damaged file can hold it: not a table, a
\* key missing, a value of another variant, an array of 2 or 4 elements or
\* with an integer in it; and, harmless, a key the loader does not know.
EditedEntries(entry) ==
    LET map == entry.v
        three == <<VFloat(1), VFloat(2), VFloat(3)>>
    IN  {VFloat(0), VArray(<<>>)}
        \cup {VTable(MapRemove(map, k)) : k \in BodyKeys}
        \cup {VTable(MapInsert(map, "name", x)) : x \in {VInteger(1), VFloat(1)}}
        \cup {VTable(MapInsert(map, k, x)) :
                k \in {"gm", "radius"}, x \in {VInteger(7), VString("7.0")}}
        \cup {VTable(MapInsert(map, k, x)) :
                k \in {"position", "velocity"},
                x \in {VString("1,2,3"), VFloat(1),
                       VArray(SubSeq(three, 1, 2)),
                       VArray(Append(three, VFloat(4))),
                       VArray(<<VFloat(1), VInteger(2), VFloat(3)>>),
                       VArray(<<VFloat(1), VFloat(2), VString("3")>>)}}
        \cup {VTable(MapInsert(map, "colour", VString("red")))}

\* The same for the whole file.
EditedValues(val) ==
    LET entries == val.v["bodies"].v
    IN  {VString("bodies"), VArray(<<>>), VTable(EmptyMap),
         VTable(MapInsert(EmptyMap, "body", val.v["bodies"])),
         VTable(MapInsert(val.v, "bodies", VString("none"))),
         VTable(MapInsert(val.v, "bodies", VTable(EmptyMap))),
         VTable(MapInsert(val.v, "comment", VString("edited")))}
        \cup UNION {{VTable(MapInsert(val.v, "bodies",
                        VArray([entries EXCEPT ![i] = e]))) :
                      e \in EditedEntries(entries[i])} :
                    i \in 1..Len(entries)}

TomlTimes == {EpochTime, [s |-> 1, ns |-> 500]}

\* SimState::save up to the Value: Value::from(self).
Serialize ==
    /\ tomlPc = "start"
    /\ tomlVal' = SimToValue(tomlSim)
    /\ tomlPc' = "saved"
    /\ UNCHANGED <<tomlSim, tomlRes>>
    /\ UNCHANGED notToml

\* The file is edited between the save and the next load.
EditFile ==
    /\ tomlPc = "saved"
    /\ tomlVal' \in EditedValues(tomlVal)
    /\ tomlPc' = "edited"
    /\ UNCHANGED <<tomlSim, tomlRes>>
    /\ UNCHANGED notToml

\* SimState::load from the Value on: .into()
Deserialize ==
    /\ tomlPc \in {"saved", "edited"}
    /\ tomlRes' = SimFromValue(tomlVal)
    /\ tomlPc' = IF tomlPc = "saved" THEN "loaded" ELSE "loaded_edited"
    /\ UNCHANGED <<tomlSim, tomlVal>>
    /\ UNCHANGED notToml

-----------------------------------------------------------------------------
(* The snapshot cache: snapshots.rs.                                       *)

MaxSec == 1
MaxSnaps == 3

\* The sub-second parts the cache's times are drawn from.
SubSecs == {0, NANOS \div 2}
CacheTimes == {[s |-> sec, ns |-> n] : sec \in 0..MaxSec, n \in SubSecs}
CacheBodies == {<<>>, <<Body("Sun", 11, 21, <<1, 2, 3>>, <<4, 5, 6>>)>>}

\* A file of the directory is named <stem>.<suffix>.  insert names its file
\* by the time formatted "%Y-%m-%dT%H:%M:%SZ": the whole seconds.
FileName(t) == [stem |-> t.s, suffix |-> "state"]
NotesFile == [stem |-> 0, suffix |-> "txt"]

\* SimState::save and SimState::load: the file holds the Value's text.
Save(dir, name, sim) == MapInsert(dir, name, SimToValue(sim))
Load(dir, name) == SimFromValue(dir[name])

\* slice::binary_search_by_key(&k, |x| x.time()) on the times `keys`:
\* [found, i] is Ok(i) or Err(i), i counted from 0 as in the code.
RECURSIVE BinarySearchTime(_, _, _, _)
BinarySearchTime(keys, k, left, right) ==
    IF left >= right THEN [found |-> FALSE, i |-> left]
    ELSE LET mid == left + ((right - left) \div 2)
         IN  IF TimeLess(keys[mid + 1], k)
             THEN BinarySearchTime(keys, k, mid + 1, right)
             ELSE IF TimeLess(k, keys[mid + 1])
             THEN BinarySearchTime(keys, k, left, mid)
             ELSE [found |-> TRUE, i |-> mid]

SearchSnapshots(list, k) ==
    BinarySearchTime([j \in 1..Len(list) |-> list[j].time], k, 0, Len(list))

\* Vec::insert(i, x), i counted from 0.
VecInsert(seq, i, x) ==
    SubSeq(seq, 1, i) \o <<x>> \o SubSeq(seq, i + 1, Len(seq))

\* sort_by_key(|x| x.time()) of the loaded states.
RECURSIVE SortByTime(_)
SortByTime(S) ==
    IF S = {} THEN <<>>
    ELSE LET m == CHOOSE x \in S : \A y \in S : ~TimeLess(y.time, x.time)
         IN  <<m>> \o SortByTime(S \ {m})

\* Snapshots::new: every file whose name ends with "state" is loaded, its
\* time taken from the name up to the first '.'; one failed load fails all.
NewSnapshots(dir) ==
    LET names == {n \in DOMAIN dir : n.suffix = "state"}
    IN  IF \E n \in names : ~Load(dir, n).ok THEN Panic
        ELSE Ok(SortByTime({WithDatestr(Load(dir, n).val, n.stem) :
                               n \in names}))

\* A faulty variant: an exact match returns the snapshot before it.
GetClosestBefore(list, datetime) ==
    LET r == SearchSnapshots(list, datetime)
    IN  IF r.found THEN Ok(list[IF r.i = 0 THEN 1 ELSE r.i])
        ELSE IF Len(list) = 0 THEN Panic
        ELSE IF r.i = 0 THEN Ok(list[1])
        ELSE IF r.i = Len(list) THEN Ok(list[Len(list)])
        ELSE IF TimeLess(TimeSub(datetime, list[r.i].time),
                         TimeSub(list[r.i + 1].time, datetime))
             THEN Ok(list[r.i])
             ELSE Ok(list[r.i + 1])

\* A faulty variant: a tie goes to the earlier snapshot (>= for >).
GetClosestEarlier(list, datetime) ==
    LET r == SearchSnapshots(list, datetime)
    IN  IF r.found THEN Ok(list[r.i + 1])
        ELSE IF Len(list) = 0 THEN Panic
        ELSE IF r.i = 0 THEN Ok(list[1])
        ELSE IF r.i = Len(list) THEN Ok(list[Len(list)])
        ELSE IF ~TimeLess(TimeSub(list[r.i + 1].time, datetime),
                          TimeSub(datetime, list[r.i].time))
             THEN Ok(list[r.i])
             ELSE Ok(list[r.i + 1])

\* Snapshots::get_closest.  snapshots[0] of an empty list panics.
GetClosest(list, datetime) ==
    LET r == SearchSnapshots(list, datetime)
    IN  IF r.found THEN Ok(list[r.i + 1])
        ELSE IF Len(list) = 0 THEN Panic
        ELSE IF r.i = 0 THEN Ok(list[1])
        ELSE IF r.i = Len(list) THEN Ok(list[Len(list)])
        ELSE IF TimeLess(TimeSub(datetime, list[r.i].time),
                         TimeSub(list[r.i + 1].time, datetime))
             THEN Ok(list[r.i])
             ELSE Ok(list[r.i + 1])

\* A faulty variant: the new snapshot is pushed at the end.
InsertAtEnd(list, dir, sim) ==
    LET r == SearchSnapshots(list, sim.time)
    IN  IF r.found THEN [list |-> list, dir |-> dir, saved |-> {}]
        ELSE [list |-> Append(list, sim),
              dir |-> Save(dir, FileName(sim.time), sim),
              saved |-> {FileName(sim.time)}]

\* A faulty variant: a snapshot at an existing time replaces the stored one.
InsertOverwrites(list, dir, sim) ==
    LET r == SearchSnapshots(list, sim.time)
    IN  IF r.found
        THEN [list |-> [list EXCEPT ![r.i + 1] = sim],
              dir |-> Save(dir, FileName(sim.time), sim),
              saved |-> {FileName(sim.time)}]
        ELSE [list |-> VecInsert(list, r.i, sim),
              dir |-> Save(dir, FileName(sim.time), sim),
              saved |-> {FileName(sim.time)}]

\* Snapshots::insert: the list, the directory and the files written.
InsertSnapshot(list, dir, sim) ==
    LET r == SearchSnapshots(list, sim.time)
    IN  IF r.found THEN [list |-> list, dir |-> dir, saved |-> {}]
        ELSE [list |-> VecInsert(list, r.i, sim),
              dir |-> Save(dir, FileName(sim.time), sim),
              saved |-> {FileName(sim.time)}]

NoState == SimState([s |-> -1, ns |-> 0], <<>>)
CacheCall(kind, arg, ret, saved) ==
    [kind |-> kind, arg |-> arg, ret |-> ret, saved |-> saved]

\* The directories the program finds at start: the files an earlier run's
\* inserts wrote, one per whole second, and possibly a file that is no
\* snapshot.
StartDirs ==
    LET secs == SUBSET (0..MaxSec)
        files(S) == [{FileName([s |-> sec, ns |-> 0]) : sec \in S}
                        -> {SimToValue(SimState(EpochTime, b)) :
                              b \in CacheBodies}]
    IN  UNION {files(S) : S \in secs}
        \cup UNION {{MapInsert(d, NotesFile, VString("notes")) : d \in files(S)} :
                      S \in secs}

CacheGetClosest(datetime) ==
    /\ cacheOp' = CacheCall("get_closest", SimState(datetime, <<>>),
                            GetClosest(snapshots, datetime), {})
    /\ UNCHANGED <<snapshots, store>>
    /\ UNCHANGED notCache

CacheInsert(sim) ==
    /\ (Len(snapshots) >= MaxSnaps) => SearchSnapshots(snapshots, sim.time).found
    /\ LET r == InsertSnapshot(snapshots, store, sim)
       IN  /\ snapshots' = r.list
           /\ store' = r.dir
           /\ cacheOp' = CacheCall("insert", sim, Unit, r.saved)
    /\ UNCHANGED notCache

-----------------------------------------------------------------------------
(* The detector's light-direction buffer: main.rs, EclipseDetector.        *)

STEP == 300
RETAIN == 600

\* Vector3<f64> arithmetic.
VAdd(a, b) == <<a[1] + b[1], a[2] + b[2], a[3] + b[3]>>
VSub(a, b) == <<a[1] - b[1], a[2] - b[2], a[3] - b[3]>>
VScale(a, k) == <<a[1] * k, a[2] * k, a[3] * k>>

\* Option<Vector3<f64>>: the vector is num / den, component by component.
NoDir == [some |-> FALSE]
SomeDir(num, den) == [some |-> TRUE, num |-> num, den |-> den]

\* slice::binary_search_by(|entry| entry.0.partial_cmp(&time).unwrap()) on
\* the sample times `keys`: [found, i] is Ok(i) or Err(i), i from 0.
RECURSIVE BinarySearchF64(_, _, _, _)
BinarySearchF64(keys, k, left, right) ==
    IF left >= right THEN [found |-> FALSE, i |-> left]
    ELSE LET mid == left + ((right - left) \div 2)
         IN  IF keys[mid + 1] < k
             THEN BinarySearchF64(keys, k, mid + 1, right)
             ELSE IF keys[mid + 1] > k
             THEN BinarySearchF64(keys, k, left, mid)
             ELSE [found |-> TRUE, i |-> mid]

SearchLightDirs(dirs, t) ==
    BinarySearchF64([j \in 1..Len(dirs) |-> dirs[j][1]], t, 0, Len(dirs))

\* vec1 + (vec2 - vec1) / (t2 - t1) * (time - t1), in that order.
\* The quotient is kept as a fraction over t2 - t1, to which vec1 is brought.
Interpolate(t1, vec1, t2, vec2, t) ==
    SomeDir(<<vec1[1] * (t2 - t1) + (vec2[1] - vec1[1]) * (t - t1),
              vec1[2] * (t2 - t1) + (vec2[2] - vec1[2]) * (t - t1),
              vec1[3] * (t2 - t1) + (vec2[3] - vec1[3]) * (t - t1)>>,
            t2 - t1)

\* A faulty variant: the samples after the insertion point are used (i, i + 1).
LightDirForShifted(dirs, t) ==
    LET r == SearchLightDirs(dirs, t)
    IN  IF r.found THEN SomeDir(dirs[r.i + 1][2], 1)
        ELSE IF r.i = 0 THEN NoDir
        ELSE IF r.i >= Len(dirs) - 1 THEN NoDir
        ELSE Interpolate(dirs[r.i + 1][1], dirs[r.i + 1][2],
                         dirs[r.i + 2][1], dirs[r.i + 2][2], t)

\* EclipseDetector::light_dir_for
LightDirFor(dirs, t) ==
    LET r == SearchLightDirs(dirs, t)
    IN  IF r.found THEN SomeDir(dirs[r.i + 1][2], 1)
        ELSE IF r.i = 0 THEN NoDir
        ELSE IF r.i = Len(dirs) THEN NoDir
        ELSE Interpolate(dirs[r.i][1], dirs[r.i][2],
                         dirs[r.i + 1][1], dirs[r.i + 1][2], t)

\* A faulty variant: a sample is dropped as soon as it is RETAIN + STEP old
\* (>= for >).
SaveLightDirEager(dirs, t, dir) ==
    LET pushed == Append(dirs, <<t, dir>>)
    IN  IF t - pushed[1][1] >= RETAIN + STEP THEN Tail(pushed) ELSE pushed

\* EclipseDetector::save_light_dir
SaveLightDir(dirs, t, dir) ==
    LET pushed == Append(dirs, <<t, dir>>)
    IN  IF t - pushed[1][1] > RETAIN + STEP THEN Tail(pushed) ELSE pushed

\* Option<Eclipse>; the solar variants and PenumbralLunar are never built.
EclipseValues == {"None", "PartialLunar", "TotalLunar"}

\* EclipseDetector::detect_eclipse on a state holding the bodies `names`, with
\* delay = dist / 299_792.458; `geometry` is what the shadow-cone comparisons
\* of lines 75 to 93 give for the state and the light direction.  The result
\* carries what light_dir_for returned.
DetectEclipse(names, dirs, t, delay, geometry) ==
    IF ~({"Sun", "Earth", "Moon"} \subseteq names) THEN Panic
    ELSE LET light_dir == LightDirFor(dirs, t - delay)
         IN  IF ~light_dir.some
             THEN Ok([eclipse |-> "None", light_dir |-> light_dir])
             ELSE Ok([eclipse |-> geometry, light_dir |-> light_dir])

\* The bodies main builds.
MainBodies == {"Sun", "Mercury", "Venus", "Earth", "Moon", "Mars", "Jupiter",
               "Saturn", "Uranus", "Neptune"}

-----------------------------------------------------------------------------
(* The detector on its own: samples saved at increasing times, queries.    *)

Tick == 250
MaxTick == 4
LightTimes == {k * Tick : k \in 0..MaxTick}
LightDirs == {<<2, 0, -4>>, <<5, 3, 1>>}
LightBodies == {MainBodies, {"Sun", "Earth"}}

LightCall(kind, t, delay, names, ret) ==
    [kind |-> kind, t |-> t, delay |-> delay, names |-> names, ret |-> ret]

LightSave(t, dir) ==
    /\ Len(light_dirs) > 0 => light_dirs[Len(light_dirs)][1] < t
    /\ light_dirs' = SaveLightDir(light_dirs, t, dir)
    /\ lightOp' = LightCall("save_light_dir", t, 0, {}, Unit)
    /\ UNCHANGED notLight

LightQuery(t) ==
    /\ lightOp' = LightCall("light_dir_for", t, 0, {},
                            Ok(LightDirFor(light_dirs, t)))
    /\ UNCHANGED light_dirs
    /\ UNCHANGED notLight

LightDetect(names, t, delay, geometry) ==
    /\ lightOp' = LightCall("detect_eclipse", t, delay, names,
                            DetectEclipse(names, light_dirs, t, delay, geometry))
    /\ UNCHANGED light_dirs
    /\ UNCHANGED notLight

-----------------------------------------------------------------------------
(* main: the coarse loop and the refinement loop.                          *)
(* The state of the bodies is not carried: what the detector reads from it *)
(* (the light-travel delay, the shadow geometry) is an input of each step. *)

MaxCoarse == 3
EndTime == MaxCoarse * STEP

\* The longer run, in which the buffer fills and drops its oldest sample.
MaxLongCoarse == 5
LongEndTime == MaxLongCoarse * STEP

\* earth.pos - sun.pos of a coarse step; it has no part in the control flow.
DriverDirs == {<<5, 3, 1>>}
\* dist / 299_792.458 for the Earth's distance from the Sun, and its extremes.
Delays == {0, 499, RETAIN}

\* A faulty variant: the guard lets one more reversal through.
RefinementOverrunLate(t, t2) == t - t2 > STEP + 1

\* A faulty variant: the guard fires on the STEP-th reversal (>= for >).
RefinementOverrunEarly(t, t2) == t - t2 >= STEP

\* if time - time2 > STEP { panic!("wtf") }
RefinementOverrun(t, t2) == t - t2 > STEP

\* One pass of the while loop up to the comparison of line 274: propagate,
\* time += STEP, save_light_dir, detect_eclipse.  Without a change
\* current_eclipse = new_eclipse ends the pass.
CoarsePass(endTime, dir, delay, geometry) ==
    /\ pc = "coarse"
    /\ time < endTime
    /\ LET t == time + STEP
           dirs == SaveLightDir(light_dirs, t, dir)
           found == DetectEclipse(MainBodies, dirs, t, delay, geometry).val.eclipse
       IN  /\ time' = t
           /\ light_dirs' = dirs
           /\ new_eclipse' = found
           /\ IF found # current_eclipse
              THEN /\ pc' = "refine"
                   /\ time2' = t
                   /\ UNCHANGED current_eclipse
              ELSE /\ pc' = "coarse"
                   /\ current_eclipse' = found
                   /\ UNCHANGED time2
    /\ UNCHANGED <<eclipse, lightOp>>
    /\ UNCHANGED notDriver

CoarseStep(dir, delay, geometry) == CoarsePass(EndTime, dir, delay, geometry)
LongCoarseStep(dir, delay, geometry) ==
    CoarsePass(LongEndTime, dir, delay, geometry)

\* One pass of the refinement loop: the clone is stepped back by step2 = 1,
\* the guard, detect_eclipse on the clone, the comparison.
RefineStep(delay, geometry) ==
    /\ pc = "refine"
    /\ LET t2 == time2 - 1
           found == DetectEclipse(MainBodies, light_dirs, t2, delay,
                                  geometry).val.eclipse
       IN  /\ time2' = t2
           /\ IF RefinementOverrun(time, t2)
              THEN /\ pc' = "panicked"
                   /\ UNCHANGED eclipse
              ELSE /\ eclipse' = found
                   /\ pc' = IF found = current_eclipse THEN "report"
                            ELSE "refine"
    /\ UNCHANGED <<time, current_eclipse, new_eclipse, light_dirs, lightOp>>
    /\ UNCHANGED notDriver

\* After the break: the date of time2 is printed, current_eclipse = new_eclipse.
Report ==
    /\ pc = "report"
    /\ current_eclipse' = new_eclipse
    /\ pc' = "coarse"
    /\ UNCHANGED <<time, new_eclipse, time2, eclipse, light_dirs, lightOp>>
    /\ UNCHANGED notDriver

\* The while condition fails: main returns.
MainReturns(endTime) ==
    /\ pc = "coarse"
    /\ time >= endTime
    /\ pc' = "done"
    /\ UNCHANGED <<time, current_eclipse, new_eclipse, time2, eclipse,
                   light_dirs, lightOp>>
    /\ UNCHANGED notDriver

Finish == MainReturns(EndTime)
LongFinish == MainReturns(LongEndTime)

-----------------------------------------------------------------------------
(* impl State for SimState, and the derivatives: simulation/mod.rs.        *)
(* An amount (f64 seconds) is an integer number of 1/AmountsPerNano        *)
(* nanoseconds, so that amount * 1e9 has a fraction to truncate.           *)
(* Positions and velocities are integers; a float division is the integer  *)
(* division that truncates.                                                *)

DIM == 3
AmountsPerNano == 2

\* Division truncating toward zero (an `as i64` cast, and the stand-in for /).
TruncDiv(a, b) == IF a >= 0 THEN a \div b ELSE -((-a) \div b)

\* f64::sqrt, to the integer below.
RECURSIVE SqrtBetween(_, _, _)
SqrtBetween(n, lo, hi) ==
    IF hi - lo <= 1 THEN lo
    ELSE LET mid == (lo + hi) \div 2
         IN  IF mid * mid <= n THEN SqrtBetween(n, mid, hi)
             ELSE SqrtBetween(n, lo, mid)
Sqrt(n) == SqrtBetween(n, 0, 46341)

Dot(a, b) == a[1] * b[1] + a[2] * b[2] + a[3] * b[3]

\* Body::distance_from
DistanceFrom(body, other) ==
    LET diff == VSub(body.pos, other.pos) IN Sqrt(Dot(diff, diff))

\* SimState::position_derivative: the velocities, flattened, from body i on.
RECURSIVE Velocities(_, _)
Velocities(bodies, i) ==
    IF i > Len(bodies) THEN <<>>
    ELSE <<bodies[i].vel[1], bodies[i].vel[2], bodies[i].vel[3]>>
         \o Velocities(bodies, i + 1)

PositionDerivative(sim) == Velocities(sim.bodies, 1)

\* The acceleration of body i along axis j, summed over the bodies from i2 on.
RECURSIVE Accel(_, _, _, _)
Accel(bodies, i, j, i2) ==
    IF i2 > Len(bodies) THEN 0
    ELSE IF i2 = i THEN Accel(bodies, i, j, i2 + 1)
    ELSE LET diff == VSub(bodies[i2].pos, bodies[i].pos)
             dist == DistanceFrom(bodies[i], bodies[i2])
             part_accel == TruncDiv(bodies[i2].gm, dist * dist)
         IN  TruncDiv(part_accel * diff[j], dist)
             + Accel(bodies, i, j, i2 + 1)

\* SimState::momentum_derivative: the accelerations, from body i on.
RECURSIVE Accelerations(_, _)
Accelerations(bodies, i) ==
    IF i > Len(bodies) THEN <<>>
    ELSE <<Accel(bodies, i, 1, 1), Accel(bodies, i, 2, 1),
           Accel(bodies, i, 3, 1)>>
         \o Accelerations(bodies, i + 1)

MomentumDerivative(sim) == Accelerations(sim.bodies, 1)

\* (amount * 1e9) as i64
AmountNanos(amount) == TruncDiv(amount, AmountsPerNano)

\* A faulty variant: the two comparisons take their bound in (>=, <=).
RoundingHackInclusive(t) ==
    LET time_ns == t.ns
    IN  IF time_ns >= 999999000
        THEN TimeAdd(t, DurationNanos(NANOS - time_ns))
        ELSE IF time_ns <= 1000
        THEN TimeSub(t, DurationNanos(time_ns))
        ELSE t

\* The "rounding hack" of shift_position_in_place.
RoundingHack(t) ==
    LET time_ns == t.ns
    IN  IF time_ns > 999999000
        THEN TimeAdd(t, DurationNanos(NANOS - time_ns))
        ELSE IF time_ns < 1000
        THEN TimeSub(t, DurationNanos(time_ns))
        ELSE t

\* vec[j] += dir[i * DIM + j] * amount for j in 0..DIM, body i (from 1).
Shifted(vec, dir, i, amount) ==
    <<vec[1] + dir[(i - 1) * DIM + 1] * amount,
      vec[2] + dir[(i - 1) * DIM + 2] * amount,
      vec[3] + dir[(i - 1) * DIM + 3] * amount>>

\* The loop over the bodies of shift_position_in_place, from body i on.
RECURSIVE ShiftedPositions(_, _, _, _)
ShiftedPositions(bodies, dir, amount, i) ==
    IF i > Len(bodies) THEN <<>>
    ELSE <<Body(bodies[i].name, bodies[i].gm, bodies[i].radius,
                Shifted(bodies[i].pos, dir, i, amount), bodies[i].vel)>>
         \o ShiftedPositions(bodies, dir, amount, i + 1)

\* The loop over the bodies of shift_momentum_in_place, from body i on.
RECURSIVE ShiftedVelocities(_, _, _, _)
ShiftedVelocities(bodies, dir, amount, i) ==
    IF i > Len(bodies) THEN <<>>
    ELSE <<Body(bodies[i].name, bodies[i].gm, bodies[i].radius,
                bodies[i].pos, Shifted(bodies[i].vel, dir, i, amount))>>
         \o ShiftedVelocities(bodies, dir, amount, i + 1)

\* A faulty variant: the cast rounds down instead of truncating toward zero.
ShiftPositionFloor(sim, dir, amount) ==
    [time |-> RoundingHack(TimeAdd(sim.time,
                  DurationNanos(amount \div AmountsPerNano))),
     bodies |-> ShiftedPositions(sim.bodies, dir, amount, 1)]

\* State::shift_position_in_place
ShiftPosition(sim, dir, amount) ==
    [time |-> RoundingHack(TimeAdd(sim.time,
                  DurationNanos(AmountNanos(amount)))),
     bodies |-> ShiftedPositions(sim.bodies, dir, amount, 1)]

\* State::shift_momentum_in_place
ShiftMomentum(sim, dir, amount) ==
    [time |-> sim.time,
     bodies |-> ShiftedVelocities(sim.bodies, dir, amount, 1)]

\* Whether the rounding hack changes the time a position shift arrives at.
RoundingActs(sim, amount) ==
    LET t == TimeAdd(sim.time, DurationNanos(AmountNanos(amount)))
    IN  RoundingHack(t) # t

-----------------------------------------------------------------------------
(* The symplectic integrator (crate numeric_algs; its code is not part of  *)
(* this repository's sources).  Modelled from its description: one step of *)
(* size h is a fixed, symmetric sequence of position and momentum          *)
(* sub-shifts whose amounts are fixed multiples of h; here five leapfrog   *)
(* stages (half position shift, momentum shift, half position shift) with  *)
(* the weights 2/5, 2/5, -3/5, 2/5, 2/5.  h is a multiple of 10 amounts.    *)

StageWeights == <<2, 2, -3, 2, 2>>

SubShifts(h) ==
    LET stage(w) == <<[kind |-> "position", amount |-> (h * w) \div 10],
                      [kind |-> "momentum", amount |-> (h * w) \div 5],
                      [kind |-> "position", amount |-> (h * w) \div 10]>>
    IN  stage(StageWeights[1]) \o stage(StageWeights[2])
        \o stage(StageWeights[3]) \o stage(StageWeights[4])
        \o stage(StageWeights[5])

-----------------------------------------------------------------------------
(* A step of size h followed by a step of size -h.                         *)

\* Two bodies at distance 5, and one body alone.
HeavyPair == <<Body("Sun", 500, 7, <<0, 0, 0>>, <<0, 0, 0>>),
               Body("Earth", 100, 1, <<3, 0, 4>>, <<0, 2, -1>>)>>
LightPair == <<Body("Earth", 20, 2, <<0, 0, 0>>, <<1, 0, 0>>),
               Body("Moon", 10, 1, <<3, 0, 4>>, <<0, -1, 1>>)>>
Single == <<Body("Moon", 10, 1, <<1, 2, 3>>, <<1, -1, 0>>)>>

\* Times on a whole second, beside one, and in the middle of one; from the
\* last two a sub-shift of 300 ns arrives on a bound of the rounding hack.
IntegTimes == {[s |-> 0, ns |-> 0], [s |-> 0, ns |-> 500],
               [s |-> 0, ns |-> 1200], [s |-> 0, ns |-> 999998800],
               [s |-> 1, ns |-> 500000000],
               [s |-> 0, ns |-> 1300], [s |-> 0, ns |-> 999998700]}

\* The step sizes h: small steps for the heavy pair, steps of some hundreds
\* of nanoseconds for the others.
IntegBodies == {HeavyPair, LightPair, Single, <<>>}
IntegSteps(bodies) ==
    IF bodies = HeavyPair
    THEN {10 * m : m \in {-3, -1, 1, 2}}
    ELSE {10 * m : m \in {-300, -101, -1, 1, 101, 300}}

\* The integrator calls shift_position_in_place with the position derivative
\* of the state as it is.
ShiftPositionInPlace ==
    /\ iqueue # <<>>
    /\ Head(iqueue).kind = "position"
    /\ isim' = ShiftPosition(isim, PositionDerivative(isim), Head(iqueue).amount)
    /\ irounded' = (irounded \/ RoundingActs(isim, Head(iqueue).amount))
    /\ iqueue' = Tail(iqueue)
    /\ UNCHANGED <<isim0, ih, ipc, itarget>>
    /\ UNCHANGED notInteg

\* The integrator calls shift_momentum_in_place with the momentum derivative
\* of the state as it is.
ShiftMomentumInPlace ==
    /\ iqueue # <<>>
    /\ Head(iqueue).kind = "momentum"
    /\ isim' = ShiftMomentum(isim, MomentumDerivative(isim), Head(iqueue).amount)
    /\ iqueue' = Tail(iqueue)
    /\ UNCHANGED <<isim0, ih, ipc, irounded, itarget>>
    /\ UNCHANGED notInteg

\* The step of size h has returned: propagate_in_place with Step(-h).
PropagateBack ==
    /\ ipc = "forward"
    /\ iqueue = <<>>
    /\ ipc' = "back"
    /\ iqueue' = SubShifts(-ih)
    /\ UNCHANGED <<isim, isim0, ih, irounded, itarget>>
    /\ UNCHANGED notInteg

\* The step of size -h has returned.
PropagateReturns ==
    /\ ipc = "back"
    /\ iqueue = <<>>
    /\ ipc' = "done"
    /\ UNCHANGED <<isim, isim0, ih, iqueue, irounded, itarget>>
    /\ UNCHANGED notInteg

-----------------------------------------------------------------------------
(* SimState::propagate_to: steps of at most STEP toward a target datetime. *)

\* (datetime - self.time).num_nanoseconds() as f64 / 1e9, as an amount.
\* Only differences under a second occur below.
SecondsBetween(later, earlier) ==
    LET d == TimeSub(later, earlier)
    IN  (d.s * NANOS + d.ns) * AmountsPerNano

\* STEP.min(...): STEP seconds, or the distance to the target if that is less.
StepSize(later, earlier) ==
    IF TimeSub(later, earlier).s >= STEP
    THEN STEP * NANOS * AmountsPerNano
    ELSE SecondsBetween(later, earlier)

\* A state on a whole second, one a microsecond and a half after it and one
\* a tenth of a second after it; targets on the same times and one half a
\* microsecond after the whole second.
PropagateFrom == {[s |-> 0, ns |-> 0], [s |-> 0, ns |-> 1500],
                  [s |-> 0, ns |-> 100000000]}
PropagateTargets == PropagateFrom \cup {[s |-> 0, ns |-> 500]}

\* No body, and one body at rest.
AtRest == <<Body("Moon", 10, 1, <<1, 2, 3>>, <<0, 0, 0>>)>>
PropagateBodies == {<<>>, AtRest}

\* while datetime > self.time: a step of step_size.
PropagateLater ==
    /\ ipc = "later"
    /\ iqueue = <<>>
    /\ TimeLess(isim.time, itarget)
    /\ ih' = StepSize(itarget, isim.time)
    /\ iqueue' = SubShifts(ih')
    /\ UNCHANGED <<isim, isim0, ipc, irounded, itarget>>
    /\ UNCHANGED notInteg

\* The first loop ends once datetime > self.time is false.
PropagateTurns ==
    /\ ipc = "later"
    /\ iqueue = <<>>
    /\ ~TimeLess(isim.time, itarget)
    /\ ipc' = "earlier"
    /\ UNCHANGED <<isim, isim0, ih, iqueue, irounded, itarget>>
    /\ UNCHANGED notInteg

\* while datetime < self.time: a step of -step_size.
PropagateEarlier ==
    /\ ipc = "earlier"
    /\ iqueue = <<>>
    /\ TimeLess(itarget, isim.time)
    /\ ih' = -StepSize(isim.time, itarget)
    /\ iqueue' = SubShifts(ih')
    /\ UNCHANGED <<isim, isim0, ipc, irounded, itarget>>
    /\ UNCHANGED notInteg

\* The second loop ends once datetime < self.time is false: propagate_to
\* returns.
PropagateToReturns ==
    /\ ipc = "earlier"
    /\ iqueue = <<>>
    /\ ~TimeLess(itarget, isim.time)
    /\ ipc' = "returned"
    /\ UNCHANGED <<isim, isim0, ih, iqueue, irounded, itarget>>
    /\ UNCHANGED notInteg

-----------------------------------------------------------------------------
(* The specifications: one per part of the program, the other parts idle.  *)

Parts == {"cache", "toml", "light", "driver", "integ", "propagate"}

\* The state after construction of the part that runs: Snapshots::new() over
\* a directory, a SimState about to be saved, EclipseDetector::new(), main up
\* to its loop, a SimState handed to propagate_in_place.
Start(part) ==
    /\ store \in (IF part = "cache" THEN StartDirs ELSE {EmptyMap})
    /\ snapshots = NewSnapshots(store).val
    /\ cacheOp = CacheCall(IF part = "cache" THEN "new" ELSE "idle",
                           NoState, Unit, {})
    /\ tomlSim \in (IF part = "toml"
                    THEN {SimState(t, b) : t \in TomlTimes, b \in BodyLists}
                    ELSE {SimState(EpochTime, <<>>)})
    /\ tomlVal = NoValue
    /\ tomlRes = NoResult
    /\ tomlPc = (IF part = "toml" THEN "start" ELSE "idle")
    /\ pc = (IF part = "driver" THEN "coarse" ELSE "idle")
    /\ time = 0
    /\ current_eclipse = "None"
    /\ new_eclipse = "None"
    /\ time2 = 0
    /\ eclipse = "None"
    /\ light_dirs = <<>>
    /\ lightOp = LightCall("idle", 0, 0, {}, Unit)
    /\ isim \in (CASE part = "integ" ->
                        {SimState(t, b) : t \in IntegTimes, b \in IntegBodies}
                   [] part = "propagate" ->
                        {SimState(t, b) : t \in PropagateFrom,
                                          b \in PropagateBodies}
                   [] OTHER -> {SimState(EpochTime, <<>>)})
    /\ ih \in (IF part = "integ" THEN IntegSteps(isim.bodies) ELSE {0})
    /\ isim0 = isim
    /\ ipc = (CASE part = "integ" -> "forward"
                [] part = "propagate" -> "later"
                [] OTHER -> "idle")
    /\ iqueue = (IF part = "integ" THEN SubShifts(ih) ELSE <<>>)
    /\ irounded = FALSE
    /\ itarget \in (IF part = "propagate" THEN PropagateTargets
                     ELSE {EpochTime})

CacheNext ==
    \/ \E t \in CacheTimes : CacheGetClosest(t)
    \/ \E t \in CacheTimes, b \in CacheBodies : CacheInsert(SimState(t, b))

CacheSpec == Start("cache") /\ [][CacheNext]_vars

TomlNext == Serialize \/ EditFile \/ Deserialize

TomlSpec == Start("toml") /\ [][TomlNext]_vars

LightNext ==
    \/ \E t \in LightTimes, dir \in LightDirs : LightSave(t, dir)
    \/ \E t \in LightTimes : LightQuery(t)
    \/ \E names \in LightBodies, t \in LightTimes, delay \in {0, Tick},
          geometry \in EclipseValues : LightDetect(names, t, delay, geometry)

LightSpec == Start("light") /\ [][LightNext]_vars

Refine == \E delay \in Delays, geometry \in EclipseValues :
              RefineStep(delay, geometry)

DriverNext ==
    \/ \E dir \in DriverDirs, delay \in Delays, geometry \in EclipseValues :
          CoarseStep(dir, delay, geometry)
    \/ Refine
    \/ Report
    \/ Finish

DriverSpec == Start("driver") /\ [][DriverNext]_vars

\* main is one thread that runs on until it returns or panics.
DriverFairSpec == DriverSpec /\ WF_vars(DriverNext)

LongDriverNext ==
    \/ \E dir \in DriverDirs, delay \in Delays, geometry \in EclipseValues :
          LongCoarseStep(dir, delay, geometry)
    \/ Refine
    \/ Report
    \/ LongFinish

LongDriverSpec == Start("driver") /\ [][LongDriverNext]_vars

IntegNext ==
    \/ ShiftPositionInPlace
    \/ ShiftMomentumInPlace
    \/ PropagateBack
    \/ PropagateReturns

IntegSpec == Start("integ") /\ [][IntegNext]_vars

PropagateNext ==
    \/ PropagateLater
    \/ PropagateTurns
    \/ PropagateEarlier
    \/ PropagateToReturns
    \/ ShiftPositionInPlace
    \/ ShiftMomentumInPlace

PropagateSpec == Start("propagate") /\ [][PropagateNext]_vars

\* propagate_to runs on one thread until it returns.
PropagateFairSpec == PropagateSpec /\ WF_vars(PropagateNext)

Init == \E part \in Parts : Start(part)

\* The part that runs is the one Start set going.
Running(part) ==
    CASE part = "cache" -> cacheOp.kind # "idle"
      [] part = "toml" -> tomlPc # "idle"
      [] part = "driver" -> pc # "idle"
      [] part = "integ" -> ipc \in {"forward", "back", "done"}
      [] part = "propagate" -> ipc \in {"later", "earlier", "returned"}
      [] OTHER -> /\ cacheOp.kind = "idle"
                  /\ tomlPc = "idle"
                  /\ pc = "idle"
                  /\ ipc = "idle"

Next ==
    \/ Running("cache") /\ CacheNext
    \/ Running("toml") /\ TomlNext
    \/ Running("light") /\ LightNext
    \/ Running("driver") /\ DriverNext
    \/ Running("integ") /\ IntegNext
    \/ Running("propagate") /\ PropagateNext

Spec == Init /\ [][Next]_vars

-----------------------------------------------------------------------------
(* The snapshot cache: C1, C2, C3, C9 under CacheSpec.                     *)

\* |a - b| of two times, as a Duration.
Dist(a, b) == IF TimeLess(a, b) THEN TimeSub(b, a) ELSE TimeSub(a, b)

StrictlyIncreasing(list) ==
    \A i \in 1..(Len(list) - 1) : TimeLess(list[i].time, list[i + 1].time)

\* The last call was get_closest on a cache that is not empty.
GetClosestCalled == cacheOp.kind = "get_closest" /\ Len(snapshots) > 0

\* C1: on a cache that is not empty, get_closest(t) returns a stored snapshot
\* whose time is nearest to t; of two snapshots equally near it returns the
\* later; before the first time it returns the first snapshot, after the
\* last time the last.
C1_GetClosestNearest ==
    GetClosestCalled =>
        LET t == cacheOp.arg.time
            r == cacheOp.ret
            n == Len(snapshots)
        IN  /\ r.ok
            /\ \E i \in 1..n : snapshots[i] = r.val
            /\ \A j \in 1..n :
                  ~TimeLess(Dist(snapshots[j].time, t), Dist(r.val.time, t))
            /\ \A j \in 1..n :
                  Dist(snapshots[j].time, t) = Dist(r.val.time, t)
                      => ~TimeLess(r.val.time, snapshots[j].time)
            /\ TimeLess(t, snapshots[1].time) => r.val = snapshots[1]
            /\ TimeLess(snapshots[n].time, t) => r.val = snapshots[n]

\* get_closest was called midway between two adjacent snapshots and returned
\* the later one.
C1_TieReturnsLater ==
    /\ GetClosestCalled
    /\ \E i \in 1..(Len(snapshots) - 1) :
          /\ TimeLess(snapshots[i].time, cacheOp.arg.time)
          /\ TimeSub(cacheOp.arg.time, snapshots[i].time)
                = TimeSub(snapshots[i + 1].time, cacheOp.arg.time)
          /\ cacheOp.ret.val = snapshots[i + 1]

C3_DuplicateInsertIsNoOp ==
    [][(/\ cacheOp'.kind = "insert"
        /\ \E i \in 1..Len(snapshots) :
              snapshots[i].time = cacheOp'.arg.time)
       => (/\ snapshots' = snapshots
           /\ store' = store
           /\ cacheOp'.saved = {}
           /\ cacheOp'.ret.ok)]_vars

\* insert was called at a stored time with other bodies than the stored ones.
C3_DuplicateWithOtherBodies ==
    /\ cacheOp.kind = "insert"
    /\ cacheOp.saved = {}
    /\ \E i \in 1..Len(snapshots) :
          /\ snapshots[i].time = cacheOp.arg.time
          /\ snapshots[i].bodies # cacheOp.arg.bodies

\* C9 as claimed: the state get_closest returns is never at the target time.
C9_NeverAtTarget ==
    GetClosestCalled => cacheOp.ret.val.time # cacheOp.arg.time

\* C9, amended: the state get_closest returns is at the target time exactly
\* when the cache holds a snapshot at the target time.
C9_AtTargetIffStored ==
    GetClosestCalled =>
        ((cacheOp.ret.val.time = cacheOp.arg.time)
            <=> (\E i \in 1..Len(snapshots) :
                    snapshots[i].time = cacheOp.arg.time))

\* get_closest was called at the time of a stored snapshot, one that is not
\* the first, and returned it.
C9_ExactMatchReturned ==
    /\ GetClosestCalled
    /\ Len(snapshots) > 1
    /\ cacheOp.ret.val.time = cacheOp.arg.time
    /\ cacheOp.ret.val # snapshots[1]

-----------------------------------------------------------------------------
(* The refinement loop: C4 under DriverSpec, C5 under DriverFairSpec.      *)

\* C4 as claimed: when the refinement loop has ended without a panic, time2
\* lies strictly between the coarse times time - STEP and time.
C4_StrictlyBetween ==
    pc = "report" => (time - STEP < time2 /\ time2 < time)

\* C4, amended: when the refinement loop has ended without a panic, time2 is
\* at or after the earlier coarse time and strictly before the later one:
\* time - STEP <= time2 < time.
C4_BetweenOrAtEarlier ==
    pc = "report" => (time - STEP <= time2 /\ time2 < time)

\* The loop ended on its STEP-th reversal: time2 is the earlier coarse time.
C4_EndedAtEarlierCoarseTime ==
    /\ pc = "report"
    /\ time2 = time - STEP
    /\ eclipse = current_eclipse
    /\ new_eclipse # current_eclipse

\* C5: every pass of the refinement loop steps the clone back by one second;
\* the pass panics exactly when that makes more than STEP reversals, and
\* otherwise ends the loop exactly when the predicate on the clone equals the
\* value before the change; and the loop, once entered, ends or panics.
C5_RefinementEnds ==
    /\ [][pc = "refine" =>
            /\ time2' = time2 - 1
            /\ pc' \in {"refine", "report", "panicked"}
            /\ (pc' = "panicked") <=> (time - time2' > STEP)
            /\ (pc' = "report")
                  <=> (time - time2' <= STEP /\ eclipse' = current_eclipse)]_vars
    /\ (pc = "refine") ~> (pc \in {"report", "panicked"})

\* The loop panicked on the reversal after the STEP-th, the predicate on the
\* clone never having been the value before the change.
C5_PanickedAfterStepReversals ==
    /\ pc = "panicked"
    /\ time - time2 = STEP + 1
    /\ eclipse # current_eclipse

-----------------------------------------------------------------------------
(* Saving and loading: C6, C7 under TomlSpec.                              *)

\* C6: a SimState saved and loaded again has as many bodies, in the same
\* order, each with the name, gm, radius, position and velocity it had.
C6_RoundTripExact ==
    tomlPc = "loaded" =>
        /\ tomlRes.ok
        /\ Len(tomlRes.val.bodies) = Len(tomlSim.bodies)
        /\ \A i \in 1..Len(tomlSim.bodies) :
              LET a == tomlSim.bodies[i]
                  b == tomlRes.val.bodies[i]
              IN  /\ b.name = a.name
                  /\ b.gm = a.gm
                  /\ b.radius = a.radius
                  /\ \A j \in 1..3 : b.pos[j] = a.pos[j] /\ b.vel[j] = a.vel[j]

\* Two different bodies were saved and loaded.
C6_TwoBodiesLoaded ==
    /\ tomlPc = "loaded"
    /\ Len(tomlSim.bodies) = 2
    /\ tomlSim.bodies[1] # tomlSim.bodies[2]
    /\ tomlRes.ok

\* An array of exactly 3 floats.
WellFormedVector(val) ==
    /\ val.kind = "Array"
    /\ Len(val.v) = 3
    /\ \A i \in 1..3 : val.v[i].kind = "Float"

\* A table with a string name, float gm and radius, position and velocity.
WellFormedBody(val) ==
    /\ val.kind = "Table"
    /\ BodyKeys \subseteq DOMAIN val.v
    /\ val.v["name"].kind = "String"
    /\ val.v["gm"].kind = "Float"
    /\ val.v["radius"].kind = "Float"
    /\ WellFormedVector(val.v["position"])
    /\ WellFormedVector(val.v["velocity"])

\* A table with an array "bodies" of well-formed bodies.
WellFormedSnapshot(val) ==
    /\ val.kind = "Table"
    /\ "bodies" \in DOMAIN val.v
    /\ val.v["bodies"].kind = "Array"
    /\ \A i \in 1..Len(val.v["bodies"].v) : WellFormedBody(val.v["bodies"].v[i])

\* C7: a load returns a SimState exactly when the value is a table with an
\* array "bodies" whose entries are all well-formed bodies, and panics
\* otherwise.
C7_LoadPanicsIffMalformed ==
    tomlPc \in {"loaded", "loaded_edited"}
        => (tomlRes.ok <=> WellFormedSnapshot(tomlVal))

\* The load of a file whose second body has lost its radius panicked.
C7_MissingRadiusPanicked ==
    /\ tomlPc = "loaded_edited"
    /\ ~tomlRes.ok
    /\ tomlVal.kind = "Table"
    /\ "bodies" \in DOMAIN tomlVal.v
    /\ tomlVal.v["bodies"].kind = "Array"
    /\ Len(tomlVal.v["bodies"].v) = 2
    /\ WellFormedBody(tomlVal.v["bodies"].v[1])
    /\ tomlVal.v["bodies"].v[2].kind = "Table"
    /\ DOMAIN tomlVal.v["bodies"].v[2].v = BodyKeys \ {"radius"}

-----------------------------------------------------------------------------
(* The step forward and back: C8 under IntegSpec.                          *)

\* Every body has the position and the velocity it started with.
BodiesRestored ==
    /\ Len(isim.bodies) = Len(isim0.bodies)
    /\ \A i \in 1..Len(isim0.bodies) :
          /\ isim.bodies[i].pos = isim0.bodies[i].pos
          /\ isim.bodies[i].vel = isim0.bodies[i].vel

-----------------------------------------------------------------------------
(* The light-direction buffer: C10 under LightSpec.                        *)

\* No sample, or t before the oldest or after the newest sample.
NotBracketed(t) ==
    \/ Len(light_dirs) = 0
    \/ t < light_dirs[1][1]
    \/ t > light_dirs[Len(light_dirs)][1]

\* The fraction r.num / r.den is vec1 + (vec2 - vec1) * (t - t1) / (t2 - t1).
IsInterpolation(r, t1, vec1, t2, vec2, t) ==
    /\ r.some
    /\ r.den # 0
    /\ \A c \in 1..3 :
          r.num[c] * (t2 - t1)
              = (vec1[c] * (t2 - t1) + (vec2[c] - vec1[c]) * (t - t1)) * r.den

\* C10: on a buffer with strictly increasing sample times, light_dir_for(t)
\* returns nothing exactly when the buffer is empty or t is before the oldest
\* or after the newest sample; at a sample's time it returns that sample's
\* direction; strictly between two adjacent samples it returns their linear
\* interpolation; and detect_eclipse, when light_dir_for returns nothing for
\* time - delay, reports no eclipse.
C10_LightDirFor ==
    /\ \A i \in 1..(Len(light_dirs) - 1) :
          light_dirs[i][1] < light_dirs[i + 1][1]
    /\ lightOp.kind = "light_dir_for" =>
          LET t == lightOp.t
              r == lightOp.ret.val
          IN  /\ ~r.some <=> NotBracketed(t)
              /\ \A i \in 1..Len(light_dirs) :
                    light_dirs[i][1] = t
                        => IsInterpolation(r, 0, light_dirs[i][2],
                                           1, light_dirs[i][2], 0)
              /\ \A i \in 1..(Len(light_dirs) - 1) :
                    (light_dirs[i][1] < t /\ t < light_dirs[i + 1][1])
                        => IsInterpolation(r, light_dirs[i][1], light_dirs[i][2],
                                           light_dirs[i + 1][1],
                                           light_dirs[i + 1][2], t)
    /\ (lightOp.kind = "detect_eclipse" /\ lightOp.ret.ok) =>
          /\ NotBracketed(lightOp.t - lightOp.delay)
                => lightOp.ret.val.eclipse = "None"
          /\ ~lightOp.ret.val.light_dir.some
                <=> NotBracketed(lightOp.t - lightOp.delay)

\* light_dir_for was called strictly between the second and the third of
\* three samples, two that differ, and returned a direction.
C10_InterpolatedBetweenSamples ==
    /\ lightOp.kind = "light_dir_for"
    /\ Len(light_dirs) = 3
    /\ light_dirs[2][1] < lightOp.t
    /\ lightOp.t < light_dirs[3][1]
    /\ light_dirs[2][2] # light_dirs[3][2]
    /\ lightOp.ret.val.some

-----------------------------------------------------------------------------
(* The buffer in the driver loop: C11 under LongDriverSpec.                *)

\* save_light_dir has been called at least once.
SampleSaved == pc \in {"coarse", "refine", "report", "done"} /\ time >= STEP

\* The buffer has just been written and the refinement loop is about to start.
JustSaved == pc = "refine" /\ time2 = time

\* C11: after every save_light_dir of the driver loop the sample times are
\* strictly increasing, there are at most 4 samples spanning at most
\* RETAIN + STEP seconds, and the newest is at the coarse time; from the 4th
\* coarse step on the oldest is at time - (RETAIN + STEP), every time from
\* there to the coarse time gets a direction from light_dir_for, and so does
\* the clone's time less any delay of a query.
C11_BufferBracketsQueries ==
    SampleSaved =>
        LET n == Len(light_dirs)
        IN  /\ n >= 1
            /\ \A i \in 1..(n - 1) : light_dirs[i][1] < light_dirs[i + 1][1]
            /\ n <= 4
            /\ light_dirs[n][1] - light_dirs[1][1] <= RETAIN + STEP
            /\ light_dirs[n][1] = time
            /\ time >= 4 * STEP =>
                  /\ light_dirs[1][1] = time - (RETAIN + STEP)
                  /\ JustSaved =>
                        \A t \in (time - STEP - RETAIN)..time :
                            LightDirFor(light_dirs, t).some
                  /\ pc = "refine" =>
                        /\ time - STEP <= time2
                        /\ time2 <= time
                        /\ \A delay \in Delays :
                              LightDirFor(light_dirs, time2 - delay).some

\* The 5th coarse step has dropped the first sample, and the refinement loop
\* has stepped the clone back to the coarse time before.
C11_RefinedAfterDrop ==
    /\ pc = "refine"
    /\ time = 5 * STEP
    /\ time2 = time - STEP
    /\ Len(light_dirs) = 4
    /\ light_dirs[1][1] = 2 * STEP

-----------------------------------------------------------------------------
(* The two callbacks one at a time: C12 under IntegSpec.                   *)

\* The integrator makes its next sub-shift, of kind `kind`.
SubShiftStep(kind) ==
    /\ iqueue # <<>>
    /\ Head(iqueue).kind = kind
    /\ iqueue' = Tail(iqueue)

\* amount * 1e9 cut to whole nanoseconds, toward zero.
WholeNanos(amount) ==
    IF amount >= 0 THEN amount \div AmountsPerNano
    ELSE -((-amount) \div AmountsPerNano)

\* b - a in nanoseconds, for times less than two seconds apart.
NanosBetween(a, b) == (b.s - a.s) * NANOS + (b.ns - a.ns)

\* Every body is where it was.
PositionsKept ==
    /\ Len(isim'.bodies) = Len(isim.bodies)
    /\ \A i \in 1..Len(isim.bodies) : isim'.bodies[i].pos = isim.bodies[i].pos

\* C12: shift_position_in_place moves the time by the whole nanoseconds of
\* amount and then snaps a sub-second part above 999,999,000 ns up to the
\* next second and one below 1,000 ns down to the second, leaving any other
\* as it is; the sub-second part is then 0 or from 1,000 to 999,999,000 ns,
\* and the time is less than a microsecond from the old time plus amount.
\* shift_momentum_in_place changes neither the time nor a position.
C12_ShiftTimeRounding ==
    [][/\ SubShiftStep("position") =>
            LET amount == Head(iqueue).amount
                moved == NanosBetween(isim.time, isim'.time)
                arrived == Normalize(isim.time.s,
                                     isim.time.ns + WholeNanos(amount))
                off == moved * AmountsPerNano - amount
            IN  /\ isim'.time =
                      IF arrived.ns > 999999000
                      THEN [s |-> arrived.s + 1, ns |-> 0]
                      ELSE IF arrived.ns < 1000
                      THEN [s |-> arrived.s, ns |-> 0]
                      ELSE arrived
                /\ \/ isim'.time.ns = 0
                   \/ (1000 <= isim'.time.ns /\ isim'.time.ns <= 999999000)
                /\ -1000 * AmountsPerNano < off
                /\ off < 1000 * AmountsPerNano
       /\ SubShiftStep("momentum") =>
            (isim'.time = isim.time /\ PositionsKept)]_vars

\* The first sub-shift of a step, 300 ns from 0.999998800 s, was snapped up
\* to the next whole second.
C12_SnappedUp ==
    /\ ipc = "forward"
    /\ Len(iqueue) = Len(SubShifts(ih)) - 1
    /\ isim0.time = [s |-> 0, ns |-> 999998800]
    /\ ih = 3000
    /\ isim.time = [s |-> 1, ns |-> 0]
    /\ irounded

-----------------------------------------------------------------------------
(* propagate_to: C13 under PropagateFairSpec.                              *)

\* No step is running: propagate_to is at the head of one of its loops, or
\* has returned.
BetweenSteps == ipc \in {"later", "earlier", "returned"} /\ iqueue = <<>>

\* |h| is at most STEP seconds.
AtMostSTEP(h) ==
    LET a == IF h < 0 THEN -h ELSE h
        second == NANOS * AmountsPerNano
    IN  \/ a \div second < STEP
        \/ a \div second = STEP /\ a % second = 0

\* propagate_to issues a step to the integrator.
StepIssued == iqueue = <<>> /\ iqueue' # <<>>

\* On return the state's time is the target.
OnTargetAtReturn == ipc = "returned" => isim.time = itarget

\* Between steps the state's time is never beyond the target, seen from the
\* time it started at.
NeverBeyondTarget ==
    BetweenSteps =>
        /\ ~TimeLess(itarget, isim0.time) => ~TimeLess(itarget, isim.time)
        /\ ~TimeLess(isim0.time, itarget) => ~TimeLess(isim.time, itarget)

\* A state already at the target is left as it is and no step is issued.
UntouchedAtTarget == isim0.time = itarget => isim = isim0 /\ iqueue = <<>>

\* Every step is at most STEP long and points toward the target.
StepTowardTarget ==
    StepIssued =>
        /\ AtMostSTEP(ih')
        /\ ih' # 0
        /\ (ih' > 0) = TimeLess(isim.time, itarget)

\* C13: for every state and every target datetime (earlier than, equal to
\* or later than the state's time, with any nanosecond offset) propagate_to
\* returns, and on return the state's time is the target exactly; every step
\* it issues to the integrator is at most STEP long and points toward the
\* target; the state's time never goes beyond the target; a state that is
\* already at the target gets no step and is left unchanged.
C13_PropagateToReachesTarget ==
    /\ [](OnTargetAtReturn /\ NeverBeyondTarget /\ UntouchedAtTarget)
    /\ [][StepTowardTarget]_vars
    /\ <>(ipc = "returned")

=============================================================================
